---- MODULE Spec2Model ----
(***************************************************************************)
(* A model of compress.py: one run of main, from the argument checks       *)
(* through the image size-search loop (compress_image) or the video        *)
(* bitrate plan and two-pass encode (compress_video) to the exit.          *)
(*                                                                         *)
(* The external services (Pillow's Image.open / save / resize, ffprobe,    *)
(* ffmpeg, the file system) are modelled by what the code asks of them and *)
(* reads back: the size a save produces, the duration a probe prints and   *)
(* the success of an encoder pass are nondeterministic choices.  Python    *)
(* floats are modelled as exact rationals (numerator / denominator).       *)
(***************************************************************************)
EXTENDS Integers, Sequences, FiniteSets

VARIABLES
    pc,               \* position of the run in main / compress_image / compress_video
    exit_code,        \* process exit status once pc = "exit" (-1 while running)
    error,            \* which fatal condition ended the run ("none" while running)
    done_reported,    \* main printed "Done! Saved to ..." and the final size
    input_exists,     \* os.path.exists(args.input)
    ext,              \* os.path.splitext(args.input)[1], as typed (a sequence of characters)
    target_bytes,     \* main: target_bytes = parse_size(args.size) (-1 before)
    current_size,     \* main: current_size = get_file_size(args.input) (-1 before)
    pipeline,         \* which of compress_image / compress_video main called
    quality,          \* compress_image: quality
    width,            \* compress_image: img.size[0]
    height,           \* compress_image: img.size[1]
    img_current_size, \* compress_image: current_size of the last save (-1 before)
    temp,             \* the scratch file output_path + ".temp.jpg"
    qlog,             \* qualities printed by "Image Pass" since the last resize
    resized,          \* compress_image took the resize branch at least once
    output,           \* the file at output_path
    duration,         \* compress_video: duration, in seconds (-1 before)
    plan,             \* compress_video: usable_bytes, total, audio and video bitrate
    encoder_calls,    \* the ffmpeg invocations made, in order
    probe_calls       \* number of ffprobe invocations made

vars == <<pc, exit_code, error, done_reported, input_exists, ext, target_bytes,
          current_size, pipeline, quality, width, height, img_current_size,
          temp, qlog, resized, output, duration, plan, encoder_calls,
          probe_calls>>

main_vars == <<input_exists, ext, target_bytes, current_size>>
image_vars == <<quality, width, height, img_current_size, temp, qlog, resized>>
video_vars == <<duration, plan, encoder_calls, probe_calls>>
exit_vars == <<exit_code, error, done_reported>>

(***************************************************************************)
(* Bounds of the model.                                                    *)
(***************************************************************************)
\* Largest width and height of a source image.
MaxDim == 3
\* Largest file size (bytes) the image encoder returns for a save.
MaxEncoded == 2

(***************************************************************************)
(* Inputs.                                                                 *)
(***************************************************************************)
\* Extensions of args.input: every listed image and video extension, upper-case
\* spellings, an unlisted extension and no extension at all.
Exts ==
    { <<".", "j", "p", "g">>, <<".", "j", "p", "e", "g">>, <<".", "p", "n", "g">>,
      <<".", "b", "m", "p">>, <<".", "t", "i", "f", "f">>, <<".", "J", "P", "G">>,
      <<".", "m", "p", "4">>, <<".", "m", "o", "v">>, <<".", "a", "v", "i">>,
      <<".", "m", "k", "v">>, <<".", "f", "l", "v">>, <<".", "M", "o", "V">>,
      <<".", "g", "i", "f">>, << >> }

\* Byte counts parse_size returns.  0 and 1 lie below what the image encoder can
\* produce; the others place the video plan on and around its thresholds
\* (with a duration of 19 s: 162500 gives a video bitrate of exactly 1000,
\* 1250000 a total of exactly 500000, 2500000 a total of exactly 1000000).
Targets == {0, 1, 8000, 162499, 162500, 1250000, 2500000, 5000000, 5242880}

\* Sizes of the input file.
InputSizes == {0, MaxEncoded + 1, 20971520}

\* Durations ffprobe prints, in seconds.
Durations == {0, 1, 19, 38, 60}

(***************************************************************************)
(* Constants of the program.                                               *)
(***************************************************************************)
min_quality == 5
initial_quality == 95
reset_quality == 85
quality_step == 5
\* resize_factor = 0.9, as the fraction resize_factor_num / resize_factor_den
resize_factor_num == 9
resize_factor_den == 10
\* overhead_margin = 0.05, as the fraction 1 / overhead_margin_den
overhead_margin_den == 20
audio_default == 128000
audio_medium == 96000
audio_low == 64000
min_video_bitrate == 1000

image_exts ==
    { <<".", "j", "p", "g">>, <<".", "j", "p", "e", "g">>, <<".", "p", "n", "g">>,
      <<".", "b", "m", "p">>, <<".", "t", "i", "f", "f">> }
video_exts ==
    { <<".", "m", "p", "4">>, <<".", "m", "o", "v">>, <<".", "a", "v", "i">>,
      <<".", "m", "k", "v">>, <<".", "f", "l", "v">> }

(***************************************************************************)
(* Pure helpers.                                                           *)
(***************************************************************************)
\* str.lower() on one character (the letters that occur in Exts).
LowerChar(c) ==
    CASE c = "J" -> "j"
      [] c = "P" -> "p"
      [] c = "G" -> "g"
      [] c = "M" -> "m"
      [] c = "V" -> "v"
      [] OTHER -> c

\* str.lower()
lower(s) == [i \in DOMAIN s |-> LowerChar(s[i])]

NoPlan == [usable_num |-> 0, usable_den |-> 1, total_num |-> 0, total_den |-> 1,
           audio_bitrate |-> 0, video_num |-> 0, video_den |-> 1]
NoFile == [state |-> "absent", bytes |-> 0]
PriorFile == [state |-> "prior", bytes |-> 0]

(***************************************************************************)
(* Leaving the process.                                                    *)
(***************************************************************************)
\* sys.exit(code) after printing the message of a fatal condition (or of the no-op).
Exit(code, err) ==
    /\ pc' = "exit"
    /\ exit_code' = code
    /\ error' = err

\* An exception nothing catches: the interpreter prints a traceback and exits 1.
Uncaught == Exit(1, "Uncaught")

(***************************************************************************)
(* main                                                                    *)
(***************************************************************************)
Init ==
    /\ pc = "main_exists"
    /\ exit_code = -1
    /\ error = "none"
    /\ done_reported = FALSE
    /\ input_exists = FALSE
    /\ ext = << >>
    /\ target_bytes = -1
    /\ current_size = -1
    /\ pipeline = "none"
    /\ quality = initial_quality
    /\ width = 1
    /\ height = 1
    /\ img_current_size = -1
    /\ temp = NoFile
    /\ qlog = << >>
    /\ resized = FALSE
    /\ output \in {NoFile, PriorFile}
    /\ duration = -1
    /\ plan = NoPlan
    /\ encoder_calls = << >>
    /\ probe_calls = 0

\* if not os.path.exists(args.input): print(...); sys.exit(1)
MainExists ==
    /\ pc = "main_exists"
    /\ \E e \in BOOLEAN, x \in Exts :
          /\ input_exists' = e
          /\ ext' = x
          /\ IF e
               THEN pc' = "main_parse" /\ UNCHANGED <<exit_code, error>>
               ELSE Exit(1, "InputNotFound")
    /\ UNCHANGED <<done_reported, target_bytes, current_size, pipeline, output>>
    /\ UNCHANGED <<image_vars, video_vars>>

\* target_bytes = parse_size(args.size): a byte count, or int()/float() raises
\* ValueError on a token with no parsable number.
MainParse ==
    /\ pc = "main_parse"
    /\ \/ \E t \in Targets :
             /\ target_bytes' = t
             /\ pc' = "main_size"
             /\ UNCHANGED <<exit_code, error>>
       \/ /\ Uncaught
          /\ UNCHANGED target_bytes
    /\ UNCHANGED <<done_reported, input_exists, ext, current_size, pipeline, output>>
    /\ UNCHANGED <<image_vars, video_vars>>

\* current_size = get_file_size(args.input)
MainSize ==
    /\ pc = "main_size"
    /\ \E s \in InputSizes : current_size' = s
    /\ pc' = "main_check"
    /\ UNCHANGED <<exit_vars, input_exists, ext, target_bytes, pipeline, output>>
    /\ UNCHANGED <<image_vars, video_vars>>

\* The size check with the boundary left out: an input of exactly target_bytes
\* would be compressed.
AlreadySmallStrict(size, target) == size < target

\* current_size <= target_bytes
AlreadySmall(size, target) == size <= target

\* if current_size <= target_bytes: print(...); sys.exit(0)
MainCheck ==
    /\ pc = "main_check"
    /\ IF AlreadySmall(current_size, target_bytes)
         THEN Exit(0, "none")
         ELSE pc' = "main_route" /\ UNCHANGED <<exit_code, error>>
    /\ UNCHANGED <<done_reported, main_vars, pipeline, output>>
    /\ UNCHANGED <<image_vars, video_vars>>

\* The dispatch without .lower(): upper-case extensions are not recognised.
RouteCaseSensitive(x) ==
    IF x \in image_exts THEN "image"
    ELSE IF x \in video_exts THEN "video"
    ELSE "unsupported"

\* ext = os.path.splitext(args.input)[1].lower(); the if / elif / else on it
Route(x) ==
    IF lower(x) \in image_exts THEN "image"
    ELSE IF lower(x) \in video_exts THEN "video"
    ELSE "unsupported"

\* The dispatch of main: compress_image, compress_video or "Unsupported file format."
MainRoute ==
    /\ pc = "main_route"
    /\ \/ /\ Route(ext) = "image"
          /\ pipeline' = "image"
          /\ pc' = "image_open"
          /\ UNCHANGED <<exit_code, error>>
       \/ /\ Route(ext) = "video"
          /\ pipeline' = "video"
          /\ pc' = "video_probe"
          /\ UNCHANGED <<exit_code, error>>
       \/ /\ Route(ext) = "unsupported"
          /\ Exit(1, "UnsupportedFormat")
          /\ UNCHANGED pipeline
    /\ UNCHANGED <<done_reported, main_vars, output>>
    /\ UNCHANGED <<image_vars, video_vars>>

\* final_size = get_file_size(output_path); print "Done!" and the final size.
\* os.path.getsize raises FileNotFoundError when nothing is at output_path.
MainReport ==
    /\ pc = "main_report"
    /\ IF output.state = "absent"
         THEN Uncaught /\ UNCHANGED done_reported
         ELSE Exit(0, "none") /\ done_reported' = TRUE
    /\ UNCHANGED <<main_vars, pipeline, output>>
    /\ UNCHANGED <<image_vars, video_vars>>

(***************************************************************************)
(* compress_image                                                          *)
(***************************************************************************)
\* img = Image.open(input_path) (and the RGB conversion, which keeps the size);
\* min_quality = 5; quality = 95; resize_factor = 0.9; temp_path = ...
ImageOpen ==
    /\ pc = "image_open"
    /\ \E w \in 1..MaxDim, h \in 1..MaxDim :
          /\ width' = w
          /\ height' = h
    /\ quality' = initial_quality
    /\ pc' = "image_encode"
    /\ UNCHANGED <<img_current_size, temp, qlog, resized>>
    /\ UNCHANGED <<exit_vars, main_vars, pipeline, output, video_vars>>

\* img.save(temp_path, "JPEG", quality=quality, optimize=True);
\* current_size = get_file_size(temp_path); print("Image Pass | Quality: ...")
\* The size is whatever the encoder produces.  Asked for an image with a zero
\* side, the codec either writes a file all the same or raises an exception,
\* which nothing in compress_image or main catches.
ImageEncode ==
    /\ pc = "image_encode"
    /\ \/ /\ \E s \in 0..MaxEncoded :
                /\ temp' = [state |-> "scratch", bytes |-> s]
                /\ img_current_size' = s
          /\ qlog' = Append(qlog, quality)
          /\ pc' = "image_decide"
          /\ UNCHANGED exit_vars
       \/ /\ width = 0 \/ height = 0
          /\ Uncaught
          /\ UNCHANGED <<done_reported, temp, img_current_size, qlog>>
    /\ UNCHANGED <<quality, width, height, resized>>
    /\ UNCHANGED <<main_vars, pipeline, output, video_vars>>

\* The loop's exit test with its operands swapped.
MeetsTargetSwapped(size, target) == target <= size

\* current_size <= target_bytes
MeetsTarget(size, target) == size <= target

\* The quality test with >= for >: quality 5 would be lowered once more.
CanLowerQualityInclusive(q) == q >= min_quality

\* quality > min_quality
CanLowerQuality(q) == q > min_quality

\* int(width * resize_factor): int() of the float product is the floor of 9w/10
\* for every w >= 0 (the double nearest 0.9 lies above 0.9, and the product
\* rounds to at most one ulp off).
Resized(d) == (d * resize_factor_num) \div resize_factor_den

\* The body of the while loop after the save: break, lower the quality, or
\* resize and restart from quality 85.
ImageDecide ==
    /\ pc = "image_decide"
    /\ IF MeetsTarget(img_current_size, target_bytes)
         THEN /\ pc' = "image_promote"
              /\ UNCHANGED <<quality, width, height, qlog, resized>>
         ELSE IF CanLowerQuality(quality)
         THEN /\ quality' = quality - quality_step
              /\ pc' = "image_encode"
              /\ UNCHANGED <<width, height, qlog, resized>>
         ELSE /\ width' = Resized(width)
              /\ height' = Resized(height)
              /\ quality' = reset_quality
              /\ qlog' = << >>
              /\ resized' = TRUE
              /\ pc' = "image_encode"
    /\ UNCHANGED <<img_current_size, temp>>
    /\ UNCHANGED <<exit_vars, main_vars, pipeline, output, video_vars>>

\* if os.path.exists(output_path): os.remove(output_path)
\* os.rename(temp_path, output_path); compress_image returns to main
ImagePromote ==
    /\ pc = "image_promote"
    /\ output' = [state |-> "image", bytes |-> temp.bytes]
    /\ temp' = NoFile
    /\ pc' = "main_report"
    /\ UNCHANGED <<quality, width, height, img_current_size, qlog, resized>>
    /\ UNCHANGED <<exit_vars, main_vars, pipeline, video_vars>>

(***************************************************************************)
(* compress_video                                                          *)
(***************************************************************************)
\* duration = get_video_duration(input_path): ffprobe's output as a float, or
\* "Error getting video duration ..." and sys.exit(1) when it cannot be read.
VideoProbe ==
    /\ pc = "video_probe"
    /\ probe_calls' = probe_calls + 1
    /\ \/ \E d \in Durations :
             /\ duration' = d
             /\ pc' = "video_plan"
             /\ UNCHANGED <<exit_code, error>>
       \/ /\ Exit(1, "DurationUnavailable")
          /\ UNCHANGED duration
    /\ UNCHANGED <<plan, encoder_calls>>
    /\ UNCHANGED <<done_reported, main_vars, pipeline, output, image_vars>>

\* The audio tiers with <= for <: a total exactly on a threshold drops a tier.
AudioBitrateInclusive(n, d) ==
    LET first == IF n <= 1000000 * d THEN audio_medium ELSE audio_default
    IN  IF n <= 500000 * d THEN audio_low ELSE first

\* audio_bitrate = 128 * 1000; if total < 1000000: 96 * 1000;
\* if total < 500000: 64 * 1000 (the later test overrides), total = n / d
AudioBitrate(n, d) ==
    LET first == IF n < 1000000 * d THEN audio_medium ELSE audio_default
    IN  IF n < 500000 * d THEN audio_low ELSE first

\* usable_bytes = target_bytes * (1 - overhead_margin)
\* target_total_bitrate = (usable_bytes * 8) / duration
\* video_bitrate = target_total_bitrate - audio_bitrate
MakePlan(target, d) ==
    LET usable_num == target * (overhead_margin_den - 1)
        usable_den == overhead_margin_den
        total_num == usable_num * 8
        total_den == usable_den * d
        audio == AudioBitrate(total_num, total_den)
    IN  [usable_num |-> usable_num, usable_den |-> usable_den,
         total_num |-> total_num, total_den |-> total_den,
         audio_bitrate |-> audio,
         video_num |-> total_num - audio * total_den, video_den |-> total_den]

\* The viability check applied to the total bitrate instead of the video bitrate.
TooSmallTotal(p) == p.total_num < min_video_bitrate * p.total_den

\* if video_bitrate < 1000: the plan is rejected
TooSmall(p) == p.video_num < min_video_bitrate * p.video_den

\* The plan of compress_video up to the viability check.  A duration of 0
\* makes the division raise ZeroDivisionError, which nothing catches.
VideoPlan ==
    /\ pc = "video_plan"
    /\ IF duration = 0
         THEN Uncaught /\ UNCHANGED plan
         ELSE /\ plan' = MakePlan(target_bytes, duration)
              /\ IF TooSmall(plan')
                   THEN Exit(1, "TargetUnachievable")
                   ELSE pc' = "video_pass1" /\ UNCHANGED <<exit_code, error>>
    /\ UNCHANGED <<duration, encoder_calls, probe_calls>>
    /\ UNCHANGED <<done_reported, main_vars, pipeline, output, image_vars>>

\* str(int(video_bitrate)) in pass1_cmd (int() of a value >= 1000 is its floor)
Pass1Bitrate(p) == p.video_num \div p.video_den

\* Pass 2 given the total bitrate instead of the video bitrate.
Pass2BitrateTotal(p) == p.total_num \div p.total_den

\* str(int(video_bitrate)) in pass2_cmd
Pass2Bitrate(p) == p.video_num \div p.video_den

\* subprocess.run(pass1_cmd, ...): the analysis pass, written to the null
\* device.  The return code is not examined.
VideoPass1 ==
    /\ pc = "video_pass1"
    /\ \E ok \in BOOLEAN :
          encoder_calls' = Append(encoder_calls,
              [pass |-> 1, video_bitrate |-> Pass1Bitrate(plan),
               audio_bitrate |-> 0, ok |-> ok])
    /\ pc' = "video_pass2"
    /\ UNCHANGED <<duration, plan, probe_calls>>
    /\ UNCHANGED <<exit_vars, main_vars, pipeline, output, image_vars>>

\* Sizes of the file pass 2 writes: under and over the target.
VideoOutSizes(target) == {target \div 2, target + 1}

\* subprocess.run(pass2_cmd, ...): the real pass, to output_path (-y
\* overwrites).  A failing pass leaves what was there or a truncated file.
\* The return code is not examined.
VideoPass2 ==
    /\ pc = "video_pass2"
    /\ \E ok \in BOOLEAN :
          /\ encoder_calls' = Append(encoder_calls,
                [pass |-> 2, video_bitrate |-> Pass2Bitrate(plan),
                 audio_bitrate |-> plan.audio_bitrate, ok |-> ok])
          /\ IF ok
               THEN \E s \in VideoOutSizes(target_bytes) :
                       output' = [state |-> "video", bytes |-> s]
               ELSE output' \in {output, [state |-> "partial", bytes |-> 0]}
    /\ pc' = "video_cleanup"
    /\ UNCHANGED <<duration, plan, probe_calls>>
    /\ UNCHANGED <<exit_vars, main_vars, pipeline, image_vars>>

\* for f in os.listdir("."): remove the ffmpeg2pass* logs; compress_video
\* returns to main
VideoCleanup ==
    /\ pc = "video_cleanup"
    /\ pc' = "main_report"
    /\ UNCHANGED <<exit_vars, main_vars, pipeline, output, image_vars, video_vars>>

(***************************************************************************)
(* The run.                                                                *)
(***************************************************************************)
Next ==
    \/ MainExists
    \/ MainParse
    \/ MainSize
    \/ MainCheck
    \/ MainRoute
    \/ ImageOpen
    \/ ImageEncode
    \/ ImageDecide
    \/ ImagePromote
    \/ VideoProbe
    \/ VideoPlan
    \/ VideoPass1
    \/ VideoPass2
    \/ VideoCleanup
    \/ MainReport

Spec == Init /\ [][Next]_vars

\* The interpreter runs the one thread of the program whenever it can take a step.
FairSpec == Spec /\ WF_vars(Next)

(***************************************************************************)
(* Properties.                                                             *)
(***************************************************************************)
InImageLoop == pc \in {"image_encode", "image_decide"}

\* The run is past the size check of main.
PastCheck == pc \notin {"main_exists", "main_parse", "main_size", "main_check"}

\* compress_video has computed its plan (from a duration > 0).
Planned == pipeline = "video" /\ duration > 0 /\ pc \notin {"video_probe", "video_plan"}

\* a / b = c / d for b, d > 0, compared by integer part and remainder so that
\* no product leaves the 32-bit range.
RatEq(a, b, c, d) == (a \div b = c \div d) /\ ((a % b) * d = (c % d) * b)

\* The sequence a, a - 5, ..., b.
Desc(a, b) == [i \in 1..((a - b) \div 5 + 1) |-> a - 5 * (i - 1)]

\* C1: compress_image terminates for every source and target, whatever sizes
\* the encoder returns: once the search loop is entered the run always reaches
\* either the success exit of the loop (a measured size <= target_bytes) or an
\* explicit TargetUnachievable exit; no run encodes forever.
C1_ImageSearchTerminates ==
    (pc = "image_encode") ~>
        (pc = "image_promote" \/ (pc = "exit" /\ error = "TargetUnachievable"))

\* C2: the output location is written only on success.  Every step of the
\* image pipeline that changes the file at output_path is the promotion of the
\* scratch file, taken when the size measured for that scratch file in the last
\* iteration is <= target_bytes; a step of an iteration whose measured size
\* exceeds target_bytes leaves the output as it is and does not lead to the
\* promotion.
C2_PromoteOnlyOnSuccess ==
    [][ pipeline = "image" =>
          /\ (output' # output =>
                /\ pc = "image_promote"
                /\ img_current_size <= target_bytes
                /\ temp = [state |-> "scratch", bytes |-> img_current_size]
                /\ output' = [state |-> "image", bytes |-> img_current_size])
          /\ (pc = "image_decide" /\ img_current_size > target_bytes =>
                output' = output /\ pc' # "image_promote") ]_vars

\* C2 witness: the scratch file was promoted after iterations that went over
\* the target (a resize happened), with a final size exactly on the target.
C2_Witness ==
    /\ pc = "main_report"
    /\ output.state = "image"
    /\ resized
    /\ target_bytes = 1
    /\ output.bytes = 1

\* C3: quality degrades before resolution, in an exact order.  The search
\* starts at quality 95; an iteration over the target with quality > 5 lowers
\* quality by exactly 5 and keeps width and height; an iteration over the
\* target at quality 5 sets width to floor(0.9 * width), height to
\* floor(0.9 * height) and quality to 85.  The qualities encoded at the current
\* dimensions are 95, 90, ... before the first resize and 85, 80, ... after one,
\* down to the current quality, so a resize is only ever taken with the whole
\* run down to 5 encoded.
C3_QualityBeforeResolution ==
    /\ [][ pc = "image_open" => quality' = 95 /\ qlog' = << >> /\ ~resized' ]_vars
    /\ [][ pc = "image_decide" /\ img_current_size > target_bytes =>
             IF quality > 5
               THEN quality' = quality - 5 /\ width' = width /\ height' = height
               ELSE /\ quality = 5
                    /\ width' = (9 * width) \div 10
                    /\ height' = (9 * height) \div 10
                    /\ quality' = 85 ]_vars
    /\ [][ (width' # width \/ height' # height) /\ InImageLoop =>
             qlog = Desc(IF resized THEN 85 ELSE 95, 5) ]_vars
    /\ [](pc = "image_decide" => qlog = Desc(IF resized THEN 85 ELSE 95, quality))

\* C3 witness: a second resize is about to be taken, after the run 85 .. 5.
C3_Witness ==
    /\ pc = "image_decide"
    /\ resized
    /\ quality = 5
    /\ img_current_size > target_bytes
    /\ width = 2
    /\ Len(qlog) = 17

\* C4: in every state of the compress_image loop quality is in [5, 95] and
\* width and height are > 0: the encoder is never asked for an image with a
\* zero side.
C4_ImageSearchStateInvariant ==
    InImageLoop => quality \in 5..95 /\ width > 0 /\ height > 0

\* C5: the no-op short-circuit.  Whenever the input exists and the parsed
\* target_bytes is >= the input's current size, the run past the size check has
\* ended with exit code 0 without calling compress_image or compress_video,
\* without any probe or encoder invocation, and without creating or changing a
\* scratch or output file.
C5_NoOpShortCircuit ==
    (PastCheck /\ input_exists /\ current_size >= 0 /\ target_bytes >= current_size) =>
        /\ pc = "exit"
        /\ exit_code = 0
        /\ pipeline = "none"
        /\ encoder_calls = << >>
        /\ probe_calls = 0
        /\ temp = NoFile
        /\ output \in {NoFile, PriorFile}
        /\ ~done_reported

\* C5 witness: the no-op exit on the boundary target_bytes = current size.
C5_Witness ==
    /\ pc = "exit"
    /\ input_exists
    /\ current_size = 0
    /\ target_bytes = 0
    /\ exit_code = 0

\* C6 (as claimed): for every existing input and valid size token, an image
\* extension is never routed to the video pipeline, a video extension never to
\* the image pipeline, and a run on any other extension ends with
\* UnsupportedFormat and a non-zero exit code, never with a success exit.
C6_RoutingAsClaimed ==
    (input_exists /\ target_bytes >= 0) =>
        /\ (lower(ext) \in image_exts => pipeline # "video")
        /\ (lower(ext) \in video_exts => pipeline # "image")
        /\ (pc = "exit" /\ current_size >= 0
              /\ lower(ext) \notin image_exts \cup video_exts =>
                 exit_code # 0 /\ error = "UnsupportedFormat" /\ pipeline = "none")

\* C6 (amended): for every existing input and valid size token whose
\* target_bytes is below the input's current size, an image extension (compared
\* in lower case) is routed to the image pipeline and only to it, a video
\* extension to the video pipeline and only to it, and any other extension
\* ends the run with UnsupportedFormat, exit code 1 and neither pipeline
\* called.  When target_bytes >= the current size the run takes the no-op exit
\* 0 before the extension is looked at, whatever the extension.
C6_Routing ==
    /\ (pipeline = "image" => lower(ext) \in image_exts)
    /\ (pipeline = "video" => lower(ext) \in video_exts)
    /\ (PastCheck /\ pc # "main_route" /\ input_exists /\ target_bytes >= 0
          /\ current_size > target_bytes =>
             /\ (lower(ext) \in image_exts => pipeline = "image")
             /\ (lower(ext) \in video_exts => pipeline = "video")
             /\ (lower(ext) \notin image_exts \cup video_exts =>
                   /\ pc = "exit"
                   /\ exit_code = 1
                   /\ error = "UnsupportedFormat"
                   /\ pipeline = "none"
                   /\ encoder_calls = << >>
                   /\ probe_calls = 0
                   /\ temp = NoFile))
    /\ (PastCheck /\ input_exists /\ current_size >= 0
          /\ current_size <= target_bytes =>
             pc = "exit" /\ exit_code = 0 /\ pipeline = "none")

\* C6 witness: an input over the target with an unlisted extension was refused.
C6_Witness ==
    /\ pc = "exit"
    /\ error = "UnsupportedFormat"
    /\ ext = <<".", "g", "i", "f">>
    /\ current_size > target_bytes

\* C7: the video plan.  For every duration > 0 and target_bytes:
\* usable_bytes = 0.95 * target_bytes; total = usable_bytes * 8 / duration
\* (= 38 * target_bytes / (5 * duration)); audio_bitrate is 128000 when
\* total >= 1000000, 96000 when 500000 <= total < 1000000, 64000 when
\* total < 500000; video_bitrate = total - audio_bitrate.
C7_VideoPlan ==
    Planned =>
        LET t == target_bytes
            d == duration
            audio == IF 38 * t >= 1000000 * (5 * d) THEN 128000
                     ELSE IF 38 * t >= 500000 * (5 * d) THEN 96000
                     ELSE 64000
        IN  /\ RatEq(plan.usable_num, plan.usable_den, 95 * t, 100)
            /\ RatEq(plan.total_num, plan.total_den, 38 * t, 5 * d)
            /\ plan.audio_bitrate = audio
            /\ RatEq(plan.video_num, plan.video_den, 38 * t - audio * (5 * d), 5 * d)

\* C7 witness: a plan whose total bitrate is exactly 1000000 (2500000 bytes
\* over 19 s) keeps the 128000 tier.
C7_Witness ==
    /\ Planned
    /\ target_bytes = 2500000
    /\ duration = 19
    /\ plan.total_num = 1000000 * plan.total_den
    /\ plan.audio_bitrate = 128000

\* C8: the viability check precedes encoding.  An encoder pass has been invoked
\* only if the plan's video_bitrate is >= 1000; a plan with video_bitrate < 1000
\* ends the run with TargetUnachievable and a non-zero exit code, with no
\* encoder pass invoked and the output untouched.
C8_ViabilityBeforeEncode ==
    /\ (encoder_calls # << >> =>
          Planned /\ plan.video_num >= 1000 * plan.video_den)
    /\ (Planned /\ plan.video_num < 1000 * plan.video_den =>
          /\ pc = "exit"
          /\ exit_code # 0
          /\ error = "TargetUnachievable"
          /\ encoder_calls = << >>
          /\ output \in {NoFile, PriorFile})

\* C8 witness: a plan one byte under the viability boundary was rejected
\* (162499 bytes over 19 s: video_bitrate = 999.6).
C8_Witness ==
    /\ pc = "exit"
    /\ error = "TargetUnachievable"
    /\ target_bytes = 162499
    /\ duration = 19
    /\ plan.audio_bitrate = 64000

\* C9: encode failures are fatal.  A failed encoder pass is the last encoder
\* invocation of the run (the next pass is not started as if it had
\* succeeded), the run never reports a completed output after it, and it ends
\* with a non-zero exit code.
C9_EncodeFailureFatal ==
    \A i \in DOMAIN encoder_calls :
        ~encoder_calls[i].ok =>
            /\ i = Len(encoder_calls)
            /\ ~done_reported
            /\ (pc = "exit" => exit_code # 0)

\* C10: the two-pass discipline.  The encoder is invoked at most twice, pass 1
\* first and pass 2 second, both with the integer part of the one plan's
\* video_bitrate, pass 2 with the plan's audio bitrate; once compress_video is
\* past pass 2 there are exactly two invocations, whatever the size of the
\* output; and the plan is never computed again once a pass has been invoked.
C10_TwoPassNoFeedback ==
    /\ [](LET vb == (38 * target_bytes - plan.audio_bitrate * (5 * duration))
                       \div (5 * duration)
          IN  /\ Len(encoder_calls) <= 2
              /\ \A i \in DOMAIN encoder_calls :
                    /\ encoder_calls[i].pass = i
                    /\ encoder_calls[i].video_bitrate = vb
              /\ (Len(encoder_calls) = 2 =>
                    encoder_calls[2].audio_bitrate = plan.audio_bitrate)
              /\ (pc = "video_pass1" => Len(encoder_calls) = 0)
              /\ (pc = "video_pass2" => Len(encoder_calls) = 1)
              /\ (Planned /\ pc \notin {"video_pass1", "video_pass2"}
                    /\ error # "TargetUnachievable" => Len(encoder_calls) = 2))
    /\ [][ encoder_calls # << >> => plan' = plan ]_vars

\* C10 witness: both passes ran, the output came out over the target, and the
\* run reported it without a third invocation.
C10_Witness ==
    /\ pc = "exit"
    /\ done_reported
    /\ Len(encoder_calls) = 2
    /\ output.state = "video"
    /\ output.bytes > target_bytes

====
